---- MODULE Spec2Model ----
(***************************************************************************)
(* Model of apps/backup_and_restore/backup_and_restore.py: the staged      *)
(* load / delete / validate scenario that the script drives against a      *)
(* vector store, together with the store as the script observes it.        *)
(*                                                                         *)
(* Numbers.  The script computes three quantities in binary floating       *)
(* point: (end-start)*0.1 + start, 0.9*end and expected_count*3/4.  They   *)
(* are kept here as exact integers scaled by ten (names ending in 10) or   *)
(* by forty.  For every integer below 2^31 the double nearest to n*0.1 is  *)
(* the integer n/10 when ten divides n and lies strictly between           *)
(* floor(n/10) and floor(n/10)+1 otherwise (the same for 0.9), so every    *)
(* comparison with an integer and every int() truncation the script makes  *)
(* has the same outcome on the scaled integers as on the doubles.          *)
(***************************************************************************)
EXTENDS Integers, FiniteSets, Sequences, TLC

VARIABLES
    schema,        \* the collections that exist in the store
    store,         \* class name -> set of live objects
    prog,          \* the calls the run makes, in order (module-level code)
    pc,            \* index in prog of the next call
    status,        \* "running", "exit_1" (sys.exit(1)), "crashed" (uncaught exception)
    log,           \* the calls issued to the store so far
    fatal_log,     \* messages logged by fatal()
    last_outcome,  \* how the most recent validator call ended
    write_errors,  \* messages logged by handle_errors()
    batch_log,     \* batches sent by the most recent load_records call
    submitted,     \* add_data_object calls made by the most recent load_records call
    pending,       \* indices still buffered in client.batch
    plan           \* the store's misbehaviour in this run (at most one fault)

vars == <<schema, store, prog, pc, status, log, fatal_log, last_outcome,
          write_errors, batch_log, submitted, pending, plan>>

(***************************************************************************)
(* Module-level configuration, lines 235-242.                              *)
(***************************************************************************)
class_names == <<"Class_A", "Class_B">>

objects_per_stage == 50000

start_stage_1 == 0

end_stage_1 == objects_per_stage

\* ten times 0.9 * end_stage_1
expected_count_stage_1_10 == 9 * end_stage_1

start_stage_2 == end_stage_1

end_stage_2 == start_stage_2 + objects_per_stage

\* ten times 0.9 * end_stage_2
expected_count_stage_2_10 == 9 * end_stage_2

batch_size == 100

limit == 20

(***************************************************************************)
(* Bounds of the specification that draws load ranges from small sets.     *)
(***************************************************************************)
MaxStart == 3

MaxLen == 205

Classes == {class_names[k] : k \in 1..Len(class_names)}

Min(S) == CHOOSE x \in S : \A y \in S : x <= y

HasIndexId(o) == "index_id" \in DOMAIN o

(***************************************************************************)
(* The calls of a run.  A call names the function, its arguments and the   *)
(* step of the script that makes it.                                       *)
(***************************************************************************)
Call(step, op, class_name, start, end, stage, count_from, expected10) ==
    [step |-> step, op |-> op, class_name |-> class_name, start |-> start,
     end |-> end, stage |-> stage, count_from |-> count_from,
     expected_count10 |-> expected10]

ResetCall(step) == Call(step, "reset_schema", "", 0, 0, "", "", 0)

LoadCall(step, c, start, end, stage) ==
    Call(step, "load_records", c, start, end, stage, "", 0)

DeleteCall(step, c) == Call(step, "delete_records", c, 0, 0, "", "", 0)

DatasetCall(step, c, expected10) ==
    Call(step, "validate_dataset", c, 0, 0, "", "given", expected10)

StageCall(step, c, start, end, stage) ==
    Call(step, "validate_stage", c, start, end, stage, "", 0)

DropCall(step) == Call(step, "delete_all", "", 0, 0, "", "", 0)

Step1(c) == LoadCall(1, c, start_stage_1, end_stage_1, "stage_1")
Step2(c) == DeleteCall(2, c)
Step3a(c) == DatasetCall(3, c, expected_count_stage_1_10)
Step3b(c) == StageCall(3, c, start_stage_1, end_stage_1, "stage_1")
Step5(c) == LoadCall(5, c, start_stage_2, end_stage_2, "stage_2")
Step6(c) == DeleteCall(6, c)
Step7a(c) == DatasetCall(7, c, expected_count_stage_2_10)
Step7b(c) == StageCall(7, c, start_stage_1, end_stage_1, "stage_1")
Step7c(c) == StageCall(7, c, start_stage_2, end_stage_2, "stage_2")

\* for class_name in class_names: one call per class
Loop1 == [k \in 1..Len(class_names) |-> Step1(class_names[k])]
Loop2 == [k \in 1..Len(class_names) |-> Step2(class_names[k])]
\* for class_name in class_names: validate_dataset, then validate_stage
Loop3 ==
    [k \in 1..(2 * Len(class_names)) |->
        IF k % 2 = 1 THEN Step3a(class_names[(k + 1) \div 2])
                     ELSE Step3b(class_names[k \div 2])]
Loop5 == [k \in 1..Len(class_names) |-> Step5(class_names[k])]
Loop6 == [k \in 1..Len(class_names) |-> Step6(class_names[k])]
Loop7a == [k \in 1..Len(class_names) |-> Step7a(class_names[k])]
Loop7b == [k \in 1..Len(class_names) |-> Step7b(class_names[k])]
Loop7c == [k \in 1..Len(class_names) |-> Step7c(class_names[k])]

\* The scenario with steps 2 and 3 exchanged.
ScenarioValidateBeforeDelete ==
    <<ResetCall(0)>>
    \o Loop1
    \o Loop3
    \o Loop2
    \o Loop5
    \o Loop6
    \o Loop7a
    \o Loop7b
    \o Loop7c
    \o <<DropCall(8)>>

\* The module-level scenario, lines 244-286 (steps 4 and 9-13 only log).
Scenario ==
    <<ResetCall(0)>>
    \o Loop1
    \o Loop2
    \o Loop3
    \o Loop5
    \o Loop6
    \o Loop7a
    \o Loop7b
    \o Loop7c
    \o <<DropCall(8)>>

(***************************************************************************)
(* The store's misbehaviour.  A plan names the call (by its index in       *)
(* prog) and the index whose write goes wrong, and how:                    *)
(*   lost     the object write fails; the batch result carries an error    *)
(*   corrupt  the object is stored with a wrong index_id                   *)
(*   noprop   the object is stored without its index_id property           *)
(*   dup      the object is stored twice                                   *)
(*   unindexed  the object is stored but the filter on index_id misses it  *)
(***************************************************************************)
FaultKinds ==
    {"lost", "corrupt", "noprop", "dup", "unindexed", "misfiled", "misfiled_first"}

NoFault == [at |-> 0, kind |-> "none", index |-> 0]

\* The faults tried on a load of [start, end): a failed write of its first
\* index (which the delete would remove anyway) and each kind of fault on
\* its last index (which stays live).
FaultsOf(calls) ==
    {NoFault} \cup
    UNION {IF calls[k].op = "load_records" /\ calls[k].start < calls[k].end
           THEN {[at |-> k, kind |-> "lost", index |-> calls[k].start]}
                \cup {[at |-> k, kind |-> kd, index |-> calls[k].end - 1] :
                        kd \in FaultKinds}
           ELSE {} : k \in 1..Len(calls)}

\* uuid.UUID(int=i): a UUID is held as its 128-bit integer value
UUID(i) == i

\* UUID.int
UuidInt(u) == u

\* An object left in Class_A by an earlier run.
StaleObject ==
    [uuid |-> UUID(7), copy |-> 0, indexed |-> TRUE, filed_under |-> 7, rank |-> 1,
     should_be_deleted |-> FALSE,
     index_id |-> 7, stage |-> "stage_0", is_divisible_by_four |-> FALSE]

EmptyStore == [c \in Classes |-> {}]

(***************************************************************************)
(* The store.  An object is its identifier, its properties, the copy       *)
(* number of the document holding it (0 unless the store duplicated it),   *)
(* whether the inverted index of index_id knows it, the value that index   *)
(* files it under, and its rank in the order in which a query returns its  *)
(* records (lower first, then by identifier and copy).                     *)
(***************************************************************************)
StoredObject(u, copy, indexed, props) ==
    [uuid |-> u, copy |-> copy, indexed |-> indexed,
     filed_under |-> props.index_id, rank |-> 1,
     should_be_deleted |-> props.should_be_deleted,
     index_id |-> props.index_id,
     stage |-> props.stage,
     is_divisible_by_four |-> props.is_divisible_by_four]

StoredWithoutIndexId(u, copy, props) ==
    [uuid |-> u, copy |-> copy, indexed |-> FALSE, rank |-> 1,
     should_be_deleted |-> props.should_be_deleted,
     stage |-> props.stage,
     is_divisible_by_four |-> props.is_divisible_by_four]

\* An object the inverted index files under the index before its own.
StoredMisfiled(u, rank, props) ==
    [StoredObject(u, 0, TRUE, props) EXCEPT !.filed_under = props.index_id - 1,
                                            !.rank = rank]

\* What the store keeps of one add_data_object(props, vector, class, uuid=u).
StoreWrite(u, props, fault) ==
    IF fault.kind = "none" \/ UUID(fault.index) # u
    THEN {StoredObject(u, 0, TRUE, props)}
    ELSE CASE fault.kind = "lost" -> {}
           [] fault.kind = "corrupt" ->
                {StoredObject(u, 0, TRUE, [props EXCEPT !.index_id = @ + 1])}
           [] fault.kind = "noprop" -> {StoredWithoutIndexId(u, 0, props)}
           [] fault.kind = "dup" ->
                {StoredObject(u, 0, TRUE, props), StoredObject(u, 1, TRUE, props)}
           [] fault.kind = "unindexed" -> {StoredObject(u, 0, FALSE, props)}
           [] fault.kind = "misfiled" -> {StoredMisfiled(u, 2, props)}
           [] fault.kind = "misfiled_first" -> {StoredMisfiled(u, 0, props)}

\* The per-object results the store returns for a batch of indices lo..hi:
\* one entry per object whose write failed, carrying its error messages.
BatchResults(lo, hi, fault) ==
    IF fault.kind = "lost" /\ fault.index \in lo..hi
    THEN {[uuid |-> UUID(fault.index), errors |-> {"write failed"}]}
    ELSE {}

(***************************************************************************)
(* handle_errors, lines 47-64: logs every error message of the results     *)
(* and returns; it raises nothing.                                         *)
(***************************************************************************)
handle_errors_raises(results) ==
    [logged |-> {<<r.uuid, m>> : r \in results, m \in {"write failed"}},
     raised |-> results # {}]

handle_errors(results) ==
    [logged |-> UNION {{<<r.uuid, m>> : m \in r.errors} : r \in results},
     raised |-> FALSE]

(***************************************************************************)
(* load_records, lines 66-87.                                              *)
(***************************************************************************)
\* ten times delete_threshold = (end-start)*0.1 + start, line 70
delete_threshold10(start, end) == (end - start) + 10 * start

\* lines 74-79
data_object(i, start, end, stage) ==
    [should_be_deleted |-> 10 * i < delete_threshold10(start, end),
     index_id |-> i,
     stage |-> stage,
     is_divisible_by_four |-> i % 4 = 0]

\* client.batch with batch_size=100 (line 68): add_data_object sends the
\* buffer as one batch as soon as it holds batch_size objects.
AutoBatches(start, end) ==
    [k \in 1..((end - start) \div batch_size) |->
        [lo |-> start + (k - 1) * batch_size, hi |-> start + k * batch_size - 1]]

\* The indices in the buffer when the loop of line 71 ends.
Buffered(start, end) ==
    (start + ((end - start) \div batch_size) * batch_size)..(end - 1)

ExitFlushMissing(buffer) == << >>

\* Leaving "with client.batch as batch" (line 69) sends what is buffered.
ExitFlush(buffer) ==
    IF buffer = {} THEN << >>
    ELSE <<[lo |-> Min(buffer), hi |-> Min(buffer) + Cardinality(buffer) - 1]>>

LoadResult(objs, start, end, stage, fault) ==
    LET n == IF end > start THEN end - start ELSE 0
        planned == AutoBatches(start, start + n)
                   \o ExitFlush(Buffered(start, start + n))
        cb == [k \in 1..Len(planned) |->
                 handle_errors(BatchResults(planned[k].lo, planned[k].hi, fault))]
        raising == {k \in 1..Len(planned) : cb[k].raised}
        \* a callback that raised would end the load at that batch
        nsent == IF raising = {} THEN Len(planned) ELSE Min(raising)
        sent == SubSeq(planned, 1, nsent)
        sentTo == IF nsent = 0 THEN start - 1 ELSE planned[nsent].hi
        hit == IF fault.kind = "none" THEN {} ELSE {fault.index} \cap (start..sentTo)
        written ==
            {StoredObject(UUID(i), 0, TRUE, data_object(i, start, end, stage))
                : i \in (start..sentTo) \ hit}
            \cup UNION {StoreWrite(UUID(i), data_object(i, start, end, stage), fault)
                            : i \in hit}
    IN [objects |-> {o \in objs : UuidInt(o.uuid) \notin start..sentTo} \cup written,
        batches |-> sent,
        submitted |-> IF raising = {} THEN n ELSE sentTo - start + 1,
        pending |-> IF raising = {} THEN (sentTo + 1)..(start + n - 1) ELSE {},
        logged |-> UNION {cb[k].logged : k \in 1..nsent},
        raised |-> raising # {}]

(***************************************************************************)
(* delete_records, lines 89-99: one conditional delete, not a dry run.     *)
(***************************************************************************)
DeleteDryRun(objs) == objs

DeleteMarkedFalse(objs) == {o \in objs : o.should_be_deleted # FALSE}

DeleteWhere(objs) == {o \in objs : o.should_be_deleted # TRUE}

(***************************************************************************)
(* fatal, lines 101-103: logs the message and exits with status 1.         *)
(***************************************************************************)
fatal_logs_only(msg) == [logged |-> msg, status |-> "running"]

fatal(msg) == [logged |-> msg, status |-> "exit_1"]

Pass == [kind |-> "pass", check |-> "", index |-> 0]

Failure(kind, check, index) == [kind |-> kind, check |-> check, index |-> index]

(***************************************************************************)
(* validate_dataset, lines 108-149.                                        *)
(***************************************************************************)
\* aggregate(class).with_fields('meta { count }').with_fields('index_id {count}')
Aggregate(objs) ==
    [meta_count |-> Cardinality(objs),
     index_id_count |-> Cardinality({o \in objs : HasIndexId(o)})]

\* .with_where(is_divisible_by_four Equal False), line 133
WhereNotDivisibleByFour(objs) == {o \in objs : o.is_divisible_by_four = FALSE}

expected_filtered_quarter40(expected_count10) == expected_count10

\* forty times expected_filtered_count = expected_count * 3 / 4, line 110
expected_filtered_count40(expected_count10) == 3 * expected_count10

DatasetOutcome(objs, expected_count10) ==
    LET all == Aggregate(objs)
        filtered == Aggregate(WhereNotDivisibleByFour(objs))
    IN IF 10 * all.meta_count # expected_count10
       THEN Failure("fatal", "objects", all.meta_count)
       ELSE IF 10 * all.index_id_count # expected_count10
       THEN Failure("fatal", "props", all.index_id_count)
       ELSE IF 40 * filtered.meta_count # expected_filtered_count40(expected_count10)
       THEN Failure("fatal", "filtered objects", filtered.meta_count)
       ELSE IF 40 * filtered.index_id_count # expected_filtered_count40(expected_count10)
       THEN Failure("fatal", "filtered props", filtered.index_id_count)
       ELSE Pass

(***************************************************************************)
(* validate_stage, lines 151-230.  Each of the four loops runs over        *)
(* range(start_without_deleted, end) and stops the run at its first        *)
(* failing index; a loop starts only when the one before it has passed.    *)
(***************************************************************************)
\* int((end-start)*0.1 + start), line 152
start_without_deleted(start, end) == delete_threshold10(start, end) \div 10

CheckedRange(start, end) == start_without_deleted(start, end)..(end - 1)

\* The document get_by_id and near_object resolve an identifier to.
Primary(objs) == {o \in objs : o.copy = 0}

\* lines 155-159: data_object = get_by_id(uuid) is None for an unknown
\* identifier, and data_object['properties']['index_id'] then raises.
UuidLoop(objs, range) ==
    LET readable == {o \in Primary(objs) : HasIndexId(o) /\ UuidInt(o.uuid) \in range}
        found == {UuidInt(o.uuid) : o \in readable}
        raises == IF Cardinality(found) = Cardinality(range) THEN {}
                  ELSE range \ found
        differs == {UuidInt(o.uuid) : o \in {p \in readable : p.index_id # UuidInt(p.uuid)}}
    IN IF raises \cup differs = {} THEN Pass
       ELSE IF Min(raises \cup differs) \in raises
       THEN Failure("crash", "uuid", Min(raises \cup differs))
       ELSE Failure("fatal", "uuid", Min(raises \cup differs))

\* query.get(class, "index_id").with_where(index_id Equal i), lines 165-176:
\* the objects the inverted index of index_id files under i
WhereIndexId(objs, i) ==
    {o \in objs : HasIndexId(o) /\ o.indexed /\ o.filed_under = i}

\* result['data']['Get'][class_name][0], line 177: the first record in the
\* order the store returns them
FirstReturned(records) ==
    CHOOSE r \in records :
        \A q \in records :
            \/ r.rank < q.rank
            \/ r.rank = q.rank /\ r.uuid < q.uuid
            \/ r.rank = q.rank /\ r.uuid = q.uuid /\ r.copy <= q.copy

\* A lookup that would insist on exactly one record.
FilterLoopExactlyOne(objs, range) ==
    LET bad == {i \in range : Cardinality(WhereIndexId(objs, i)) # 1}
    IN IF bad = {} THEN Pass
       ELSE Failure("fatal", "filter", Min(bad))

\* lines 163-181: only the first object returned is read; an empty list
\* raises IndexError at line 177, and a first object whose index_id is not
\* i ends in fatal at lines 178-179.
FilterLoop(objs, range) ==
    LET listed == {p \in objs : /\ HasIndexId(p) /\ p.indexed
                                /\ p.filed_under \in range}
        keys == {o.filed_under : o \in listed}
        raises == IF Cardinality(keys) = Cardinality(range) THEN {}
                  ELSE range \ keys
        misfiled == {o \in listed : o.index_id # o.filed_under}
        differs == {o.filed_under : o \in
                       {m \in misfiled :
                           m = FirstReturned(WhereIndexId(objs, m.filed_under))}}
    IN IF raises \cup differs = {} THEN Pass
       ELSE IF Min(raises \cup differs) \in raises
       THEN Failure("crash", "filter", Min(raises \cup differs))
       ELSE Failure("fatal", "filter", Min(raises \cup differs))

\* The length of a near_object search with a limit over the candidates.
NearObjectLen(candidates) ==
    IF Cardinality(candidates) < limit THEN Cardinality(candidates) ELSE limit

\* lines 185-200 and 206-228
VectorLoop(candidates, range, check) ==
    IF range # {} /\ NearObjectLen(candidates) # limit
    THEN Failure("fatal", check, Min(range))
    ELSE Pass

WhereStage(objs, stage) == {o \in objs : o.stage = stage}

StageOutcome(objs, start, end, stage) ==
    LET range == CheckedRange(start, end)
        a == UuidLoop(objs, range)
        b == FilterLoop(objs, range)
        c == VectorLoop(objs, range, "vector")
        d == VectorLoop(WhereStage(objs, stage), range, "vector with filter")
    IN IF a.kind # "pass" THEN a
       ELSE IF b.kind # "pass" THEN b
       ELSE IF c.kind # "pass" THEN c
       ELSE d

\* How a validator's outcome ends the call: fatal() on a mismatch, an
\* uncaught exception on a crash.
StatusAfter(outcome) ==
    CASE outcome.kind = "pass" -> "running"
      [] outcome.kind = "fatal" -> fatal(outcome).status
      [] outcome.kind = "crash" -> "crashed"

FatalLogAfter(outcome) ==
    IF outcome.kind = "fatal" THEN Append(fatal_log, fatal(outcome).logged)
    ELSE fatal_log

(***************************************************************************)
(* The run: one action per function the script calls.                      *)
(***************************************************************************)
Running == status = "running" /\ pc <= Len(prog)

Fault == IF plan.at = pc THEN plan ELSE NoFault

\* lines 11-45
reset_schema ==
    /\ Running /\ prog[pc].op = "reset_schema"
    /\ schema' = Classes
    /\ store' = EmptyStore
    /\ log' = Append(log, prog[pc])
    /\ pc' = pc + 1
    /\ UNCHANGED <<prog, status, fatal_log, last_outcome, write_errors,
                   batch_log, submitted, pending, plan>>

load_records ==
    /\ Running /\ prog[pc].op = "load_records"
    /\ LET call == prog[pc]
           r == LoadResult(store[call.class_name], call.start, call.end,
                           call.stage, Fault)
       IN /\ store' = [store EXCEPT ![call.class_name] = r.objects]
          /\ schema' = schema \cup {call.class_name}
          /\ batch_log' = r.batches
          /\ submitted' = r.submitted
          /\ pending' = r.pending
          /\ write_errors' = write_errors \cup r.logged
          /\ status' = IF r.raised THEN "crashed" ELSE "running"
          /\ pc' = IF r.raised THEN pc ELSE pc + 1
    /\ log' = Append(log, prog[pc])
    /\ UNCHANGED <<prog, fatal_log, last_outcome, plan>>

delete_records ==
    /\ Running /\ prog[pc].op = "delete_records"
    /\ store' = [store EXCEPT ![prog[pc].class_name] = DeleteWhere(@)]
    /\ log' = Append(log, prog[pc])
    /\ pc' = pc + 1
    /\ UNCHANGED <<schema, prog, status, fatal_log, last_outcome, write_errors,
                   batch_log, submitted, pending, plan>>

validate_dataset ==
    /\ Running /\ prog[pc].op = "validate_dataset"
    /\ LET call == prog[pc]
           objs == store[call.class_name]
           expected10 == IF call.count_from = "live" THEN 10 * Cardinality(objs)
                         ELSE call.expected_count10
           outcome == DatasetOutcome(objs, expected10)
       IN /\ status' = StatusAfter(outcome)
          /\ fatal_log' = FatalLogAfter(outcome)
          /\ last_outcome' = outcome
          /\ pc' = IF StatusAfter(outcome) = "running" THEN pc + 1 ELSE pc
    /\ log' = Append(log, prog[pc])
    /\ UNCHANGED <<schema, store, prog, write_errors, batch_log, submitted,
                   pending, plan>>

validate_stage ==
    /\ Running /\ prog[pc].op = "validate_stage"
    /\ LET call == prog[pc]
           outcome == StageOutcome(store[call.class_name], call.start, call.end,
                                   call.stage)
       IN /\ status' = StatusAfter(outcome)
          /\ fatal_log' = FatalLogAfter(outcome)
          /\ last_outcome' = outcome
          /\ pc' = IF StatusAfter(outcome) = "running" THEN pc + 1 ELSE pc
    /\ log' = Append(log, prog[pc])
    /\ UNCHANGED <<schema, store, prog, write_errors, batch_log, submitted,
                   pending, plan>>

\* client.schema.delete_all(), line 286
delete_all ==
    /\ Running /\ prog[pc].op = "delete_all"
    /\ schema' = {}
    /\ store' = EmptyStore
    /\ log' = Append(log, prog[pc])
    /\ pc' = pc + 1
    /\ UNCHANGED <<prog, status, fatal_log, last_outcome, write_errors,
                   batch_log, submitted, pending, plan>>

Next ==
    \/ reset_schema
    \/ load_records
    \/ delete_records
    \/ validate_dataset
    \/ validate_stage
    \/ delete_all

\* The store before the run: empty, or holding what an earlier run left.
StoresBefore ==
    {[schema |-> {}, store |-> EmptyStore],
     [schema |-> Classes,
      store |-> [EmptyStore EXCEPT ![class_names[1]] = {StaleObject}]]}

InitWith(programs) ==
    /\ prog \in programs
    /\ plan \in FaultsOf(prog)
    /\ \E before \in StoresBefore : schema = before.schema /\ store = before.store
    /\ pc = 1
    /\ status = "running"
    /\ log = << >>
    /\ fatal_log = << >>
    /\ last_outcome = Pass
    /\ write_errors = {}
    /\ batch_log = << >>
    /\ submitted = 0
    /\ pending = {}

\* The script as it is.
Init == InitWith({Scenario})

Spec == Init /\ [][Next]_vars

(***************************************************************************)
(* The functions applied to load ranges drawn from small sets: one stage   *)
(* on one collection, reset, loaded, deleted from and then validated by    *)
(* validate_dataset (told the true live count) or by validate_stage.       *)
(***************************************************************************)
LiveCountCall(step, c) ==
    Call(step, "validate_dataset", c, 0, 0, "", "live", 0)

OneStage(validator, start, end) ==
    <<ResetCall(0),
      LoadCall(1, class_names[1], start, end, "stage_1"),
      DeleteCall(2, class_names[1]),
      IF validator = "validate_dataset"
      THEN LiveCountCall(3, class_names[1])
      ELSE StageCall(3, class_names[1], start, end, "stage_1"),
      DropCall(8)>>

OneStagePrograms ==
    {OneStage(v, start, start + n) :
        v \in {"validate_dataset", "validate_stage"},
        start \in 0..MaxStart, n \in 0..MaxLen}

InitOps == InitWith(OneStagePrograms)

SpecOps == InitOps /\ [][Next]_vars

(***************************************************************************)
(* Vocabulary of the properties.                                           *)
(***************************************************************************)
Faithful == plan = NoFault

LastCall == log[Len(log)]

JustDid(op) == log # << >> /\ LastCall.op = op

\* The step of the script the next call belongs to (9 when none is left).
NextStep == IF pc <= Len(prog) THEN prog[pc].step ELSE 9

LiveCount(c) == Cardinality(store[c])

NotDivisibleCount(c) == Cardinality(WhereNotDivisibleByFour(store[c]))

LiveIndices(c) == {o.index_id : o \in {p \in store[c] : HasIndexId(p)}}

MarkedIndices(c) ==
    {o.index_id : o \in {p \in store[c] : HasIndexId(p) /\ p.should_be_deleted}}

Validators == {"validate_dataset", "validate_stage"}

\* C1: with a faithful store the scenario never fails; at the stage-1
\* checkpoint every collection holds 45,000 live records of which 33,750 are
\* not divisible by four, and after the stage-2 load and delete 90,000 of
\* which 67,500 are not divisible by four.
C1_EndToEnd ==
    Faithful =>
        /\ status = "running"
        /\ fatal_log = << >>
        /\ (JustDid("validate_stage") /\ NextStep = 5) =>
              \A c \in Classes :
                  LiveCount(c) = 45000 /\ NotDivisibleCount(c) = 33750
        /\ (JustDid("delete_records") /\ NextStep = 7) =>
              \A c \in Classes :
                  LiveCount(c) = 90000 /\ NotDivisibleCount(c) = 67500

\* The faithful run has passed every validation and is about to drop the schema.
C1_Witness ==
    /\ Faithful
    /\ NextStep = 8
    /\ status = "running"
    /\ \A c \in Classes : LiveCount(c) = 90000

\* C2 as stated: load_records marks exactly the floor((end-start)*0.1)
\* lowest indices of the range with should_be_deleted = true.
C2_MarksFloorTenth ==
    (Faithful /\ JustDid("load_records")) =>
        LET call == LastCall
        IN MarkedIndices(call.class_name) =
              call.start..(call.start + ((call.end - call.start) \div 10) - 1)

\* C3: delete_records leaves in its collection exactly the objects that
\* were live with should_be_deleted = false, unchanged, none of them marked,
\* whatever stage loaded them, and leaves the other collections alone.
C3_DeleteFrame ==
    [][(log' # log /\ prog[pc].op = "delete_records") =>
          LET c == prog[pc].class_name
          IN /\ store'[c] = {o \in store[c] : o.should_be_deleted = FALSE}
             /\ \A o \in store'[c] : o.should_be_deleted # TRUE
             /\ \A d \in Classes \ {c} : store'[d] = store[d]
             /\ schema' = schema]_vars

\* The stage-2 delete has run on a collection that still holds stage-1 records.
C3_Witness ==
    /\ JustDid("delete_records")
    /\ LastCall.step = 6
    /\ \E o \in store[LastCall.class_name] : o.stage = "stage_1"
    /\ \E o \in store[LastCall.class_name] : o.stage = "stage_2"

\* C4 as stated: for a range whose size is divisible by four, loaded into an
\* empty collection and deleted from, validate_dataset told the true live
\* count passes: the records not divisible by four are 3/4 of the live ones.
C4_RangeDivisibleByFour ==
    (Faithful /\ JustDid("validate_dataset") /\ LastCall.count_from = "live"
        /\ (prog[2].end - prog[2].start) % 4 = 0) =>
        /\ status = "running"
        /\ 4 * NotDivisibleCount(LastCall.class_name) = 3 * LiveCount(LastCall.class_name)

\* C4 amended: the same holds whenever the number of records left live by
\* the delete is divisible by four.
C4_LiveDivisibleByFour ==
    (Faithful /\ JustDid("validate_dataset") /\ LastCall.count_from = "live"
        /\ LiveCount(LastCall.class_name) % 4 = 0) =>
        /\ status = "running"
        /\ last_outcome = Pass
        /\ 4 * NotDivisibleCount(LastCall.class_name) = 3 * LiveCount(LastCall.class_name)

\* validate_dataset has passed on a live count divisible by four of a range
\* whose size is not.
C4_Witness ==
    /\ Faithful /\ JustDid("validate_dataset") /\ LastCall.count_from = "live"
    /\ LiveCount(LastCall.class_name) % 4 = 0
    /\ LiveCount(LastCall.class_name) > 0
    /\ (prog[2].end - prog[2].start) % 4 # 0
    /\ status = "running"

\* C5: a validator mismatch ends the run: once fatal has been called the
\* status is that of sys.exit(1), fatal is never called a second time, and
\* no further call reaches the store.
C5_FatalHalts ==
    /\ [](fatal_log # << >> =>
            /\ status = "exit_1"
            /\ Len(fatal_log) = 1
            /\ LastCall.op \in Validators
            /\ last_outcome.kind = "fatal")
    /\ [][fatal_log # << >> => (log' = log /\ store' = store /\ schema' = schema)]_vars

\* A validator has called fatal while calls of the scenario were still to come.
C5_Witness ==
    /\ fatal_log # << >>
    /\ status = "exit_1"
    /\ NextStep < 8

\* C6: a failed object write is only logged: the load submits every index
\* of its range, all its batches are sent, the run goes on to the next call,
\* and the run leaves the running status only in a validator.
C6_WriteErrorNotFatal ==
    /\ [][(log' # log /\ prog[pc].op = "load_records") =>
            /\ status' = "running"
            /\ pc' = pc + 1
            /\ submitted' = prog[pc].end - prog[pc].start
            /\ pending' = {}
            /\ (Fault.kind = "lost" =>
                   <<UUID(Fault.index), "write failed">> \in write_errors')
            /\ {i \in prog[pc].start..(prog[pc].end - 1) :
                    Fault.kind = "none" \/ Fault.index # i}
                  \subseteq {o.index_id : o \in {p \in store'[prog[pc].class_name] :
                                                    HasIndexId(p)}}]_vars
    /\ [][status' # status => prog[pc].op \in Validators]_vars

\* A write failed and was logged, and the run went on to delete.
C6_Witness ==
    /\ write_errors # {}
    /\ JustDid("delete_records")
    /\ status = "running"

\* The batches cover [start, end) in order, none larger than batch_size.
BatchesCover(batches, start, end) ==
    /\ \A k \in 1..Len(batches) :
          /\ batches[k].lo <= batches[k].hi
          /\ batches[k].hi - batches[k].lo + 1 <= batch_size
          /\ batches[k].lo = IF k = 1 THEN start ELSE batches[k - 1].hi + 1
    /\ IF batches = << >> THEN start >= end
       ELSE batches[Len(batches)].hi = end - 1

\* C7: when load_records has returned, nothing is left in the batch buffer
\* and the batches sent, each of at most 100 objects, hold every index of
\* the range; so it is in every state in which a later call is issued.
C7_BatchesComplete ==
    /\ pending = {}
    /\ \A j \in 1..Len(log) :
          (log[j].op = "load_records"
             /\ \A k \in (j + 1)..Len(log) : log[k].op # "load_records") =>
                /\ BatchesCover(batch_log, log[j].start, log[j].end)
                /\ submitted = log[j].end - log[j].start

\* A load that ended in a partial batch after a full one, followed by the delete.
C7_Witness ==
    /\ JustDid("delete_records")
    /\ Len(batch_log) >= 2
    /\ batch_log[Len(batch_log)].hi - batch_log[Len(batch_log)].lo + 1 < batch_size
    /\ pending = {}

Before(i, j) == i < j

\* C8: the calls are issued in the script's order, each once: a stage is
\* validated only after its load and delete on every collection, stage 2 is
\* loaded only after stage 1 was validated on every collection, and the
\* schema drop comes last.
C8_LinearOrder ==
    /\ \A i, j \in 1..Len(log) :
          Before(i, j) => (log[i] # log[j] /\ log[i].step <= log[j].step)
    /\ \A j \in 1..Len(log) :
          /\ (j = 1) = (log[j].op = "reset_schema")
          /\ log[j].op = "validate_stage" =>
                \A c \in Classes : \E i, k \in 1..j :
                    /\ Before(i, k) /\ Before(k, j)
                    /\ log[i] = LoadCall(log[i].step, c, log[j].start, log[j].end,
                                         log[j].stage)
                    /\ log[k].op = "delete_records" /\ log[k].class_name = c
          /\ log[j].op = "validate_dataset" =>
                \A c \in Classes :
                    /\ \E i \in 1..j : /\ log[i].op = "load_records"
                                       /\ log[i].class_name = c
                    /\ \A i \in 1..j :
                          (log[i].op = "load_records" /\ log[i].class_name = c) =>
                              \E k \in 1..j :
                                  /\ Before(i, k) /\ Before(k, j)
                                  /\ log[k].op = "delete_records"
                                  /\ log[k].class_name = c
          /\ (log[j].op = "load_records" /\ log[j].stage = "stage_2") =>
                \A c \in Classes :
                    /\ \E i \in 1..j : /\ log[i].op = "validate_dataset"
                                       /\ log[i].class_name = c
                    /\ \E i \in 1..j : /\ log[i].op = "validate_stage"
                                       /\ log[i].class_name = c
                                       /\ log[i].stage = "stage_1"
          /\ log[j].op = "delete_all" =>
                (j = Len(log) /\ \E i \in 1..j : log[i].step = 7)
    /\ \A j \in 1..Len(log) : log[j] = prog[j]
    /\ pc \in {Len(log), Len(log) + 1}

\* The whole sequence has been issued, ending with the schema drop.
C8_Witness ==
    /\ JustDid("delete_all")
    /\ Len(log) = 2 + 9 * Len(class_names)
    /\ status = "running"

\* C9 as stated: the indices validate_stage checks are exactly the indices
\* of the range that are live after load_records and delete_records.
C9_CheckedAreLive ==
    (Faithful /\ JustDid("delete_records")) =>
        CheckedRange(prog[2].start, prog[2].end) = LiveIndices(LastCall.class_name)

\* C10 as stated: whenever the filter on index_id = i returns no record or
\* more than one for a checked index, validate_stage ends in failure.
C10_ExactlyOne ==
    (JustDid("validate_stage")
        /\ \E i \in CheckedRange(LastCall.start, LastCall.end) :
              Cardinality(WhereIndexId(store[LastCall.class_name], i)) # 1) =>
        status # "running"

\* C10 amended: the lookup reads only the first record returned.  When the
\* identity lookups have passed, validate_stage ends in the filter lookup at
\* the first checked index whose lookup returns no record or returns first a
\* record of another index_id: in the first case by an uncaught exception,
\* not by fatal, in the second by fatal.  Records after the first are not
\* read, so an index with several records passes the lookup.
C10_FirstRecordOnly ==
    JustDid("validate_stage") =>
        LET objs == store[LastCall.class_name]
            range == CheckedRange(LastCall.start, LastCall.end)
            none == {i \in range : WhereIndexId(objs, i) = {}}
            wrong == {i \in range \ none :
                         FirstReturned(WhereIndexId(objs, i)).index_id # i}
            bad == none \cup wrong
        IN UuidLoop(objs, range) = Pass =>
              /\ (bad # {}) = (last_outcome.check = "filter")
              /\ (bad # {} /\ Min(bad) \in none) =>
                      /\ last_outcome = Failure("crash", "filter", Min(bad))
                      /\ status = "crashed"
              /\ (bad # {} /\ Min(bad) \in wrong) =>
                      /\ last_outcome = Failure("fatal", "filter", Min(bad))
                      /\ status = "exit_1"
              /\ bad = {} => (last_outcome.kind = "fatal" =>
                                 last_outcome.check \in {"vector", "vector with filter"})

\* validate_stage has passed although one checked index has two records.
C10_Witness ==
    /\ JustDid("validate_stage")
    /\ status = "running"
    /\ \E i \in CheckedRange(LastCall.start, LastCall.end) :
          Cardinality(WhereIndexId(store[LastCall.class_name], i)) = 2

\* validate_stage has ended by fatal in the filter lookup: the first record
\* returned for a checked index carries another index_id.
C10_WitnessFatal ==
    /\ JustDid("validate_stage")
    /\ status = "exit_1"
    /\ last_outcome.kind = "fatal" /\ last_outcome.check = "filter"

====
